---- MODULE Spec2Model ----
(***************************************************************************)
(* Model of MassDisposer.py: authenticate, read the asset list from a CSV  *)
(* file, load two JSON templates, then for each asset PATCH its status     *)
(* and, on success only, POST a feed entry, pacing calls with sleep(1).    *)
(*                                                                         *)
(* Python strings are sequences of one-character strings; Python values    *)
(* are records [t, v] so that None, str and dict can be told apart.        *)
(***************************************************************************)
EXTENDS Integers, Sequences, FiniteSets, TLC

\* ------------------------------------------------------------------ bounds
MaxAssets == 2      \* rows of the CSV files the workflow is run on
MaxRows == 2        \* rows of the CSV files read_ids_from_csv is applied to
MaxQuotes == 3      \* quote characters on each side of an auth response body

\* ------------------------------------------------------------ Python values
None == [t |-> "None", v |-> <<>>]
Str(s) == [t |-> "str", v |-> s]
Dict(d) == [t |-> "dict", v |-> d]

\* Python truthiness of None, str, dict (not x)
Truthy(x) == x.t # "None" /\ x.v # <<>>

\* the environment values read by os.getenv when the module is loaded
EnvNames == {"APP_ID", "AUTH_URL", "API_BASE_URL", "ACCOUNT", "PASSWORD"}
EnvValues == {None, Str(<<>>), Str(<<"x">>)}

\* variant: the values are tested with "is not None"
all_env_notnone(e) == \A n \in EnvNames : e[n].t # "None"

\* all([APP_ID, AUTH_URL, API_BASE_URL, USERNAME, PASSWORD])
all_env(e) == \A n \in EnvNames : Truthy(e[n])

\* ------------------------------------------------------------ str methods
QUOTE == "\""
Whitespace == {" ", "\t"}

RECURSIVE LStrip(_, _)
LStrip(s, cs) ==
  IF s # <<>> /\ Head(s) \in cs THEN LStrip(Tail(s), cs) ELSE s

RECURSIVE RStrip(_, _)
RStrip(s, cs) ==
  IF s # <<>> /\ s[Len(s)] \in cs THEN RStrip(SubSeq(s, 1, Len(s) - 1), cs) ELSE s

\* str.strip(chars): removes every leading and trailing character in chars
strip(s, cs) == RStrip(LStrip(s, cs), cs)

UpperChar(c) ==
  CASE c = "n" -> "N" [] c = "o" -> "O" [] c = "t" -> "T" [] c = "f" -> "F"
    [] c = "u" -> "U" [] c = "d" -> "D" [] c = "i" -> "I" [] c = "s" -> "S"
    [] c = "m" -> "M" [] c = "a" -> "A" [] OTHER -> c

\* str.upper()
upper(s) == [k \in 1..Len(s) |-> UpperChar(s[k])]

NOT_FOUND == <<"N","O","T"," ","F","O","U","N","D"," ","I","N"," ","I","T","S","M">>

\* ------------------------------------------------------- get_bearer_token
\* variant: raise_for_status is not called, the body of an error answer is the token
get_bearer_token_nocheck(resp) ==
  IF resp.kind \in {"ok", "http"} THEN [ret |-> Str(strip(resp.body, {QUOTE})), exc |-> "none"]
  ELSE [ret |-> None, exc |-> "RequestException"]

\* variant: one quote is removed from each end, as text[1:-1] on a quoted body
get_bearer_token_onepair(resp) ==
  IF resp.kind = "ok"
  THEN [ret |-> Str(IF Len(resp.body) >= 2 /\ resp.body[1] = QUOTE /\ resp.body[Len(resp.body)] = QUOTE
                    THEN SubSeq(resp.body, 2, Len(resp.body) - 1) ELSE resp.body),
        exc |-> "none"]
  ELSE IF resp.kind = "http" THEN [ret |-> None, exc |-> "none"]
  ELSE [ret |-> None, exc |-> "RequestException"]

\* resp.kind: "ok" (2xx), "http" (raise_for_status raises HTTPError),
\* "net" (requests.post raises a RequestException that is no HTTPError)
get_bearer_token(resp) ==
  IF resp.kind = "ok" THEN [ret |-> Str(strip(resp.body, {QUOTE})), exc |-> "none"]
  ELSE IF resp.kind = "http" THEN [ret |-> None, exc |-> "none"]
  ELSE [ret |-> None, exc |-> "RequestException"]

\* ------------------------------------------------------ read_ids_from_csv
\* dict.get(key, '')
row_get(row, key) == IF key \in DOMAIN row THEN row[key] ELSE Str(<<>>)

\* the condition of the if statement on a trimmed ID and Serial Number
row_is_valid(asset_id, serial_number) ==
  /\ asset_id # <<>>
  /\ serial_number # <<>>
  /\ upper(asset_id) # NOT_FOUND
  /\ upper(serial_number) # NOT_FOUND

\* the for loop over the rows; a None cell (a row shorter than the header,
\* filled with restval) makes .strip() raise AttributeError, which the
\* except Exception clause turns into the empty list
RECURSIVE csv_loop(_, _)
csv_loop(rows, asset_data) ==
  IF rows = <<>> THEN asset_data
  ELSE LET row == Head(rows)
           id_cell == row_get(row, "ID")
           sn_cell == row_get(row, "Serial Number")
       IN IF id_cell.t = "None" \/ sn_cell.t = "None" THEN <<>>
          ELSE LET asset_id == strip(id_cell.v, Whitespace)
                   serial_number == strip(sn_cell.v, Whitespace)
               IN csv_loop(Tail(rows),
                     IF row_is_valid(asset_id, serial_number)
                     THEN Append(asset_data, [ID |-> asset_id, SerialNumber |-> serial_number])
                     ELSE asset_data)

\* file.kind: "missing" (FileNotFoundError), "unreadable" (any other
\* exception of open or the csv module), "ok"
read_ids_from_csv(file) ==
  IF file.kind = "ok" THEN csv_loop(file.rows, <<>>) ELSE <<>>

\* ---------------------------------------------------------- read_json_data
\* file.kind: "missing", "malformed" (JSONDecodeError), "ok"
read_json_data(file) ==
  IF file.kind = "ok" THEN Dict(file.items) ELSE None

\* ------------------------------------------------------------- dict, copy
\* a dict is the sequence of its <<key, value>> items in insertion order
dict_keys(d) == {d[k][1] : k \in 1..Len(d)}

\* d[key] = value: overwrites in place, or appends a new item
dict_setitem(d, key, value) ==
  IF key \in dict_keys(d)
  THEN [k \in 1..Len(d) |-> IF d[k][1] = key THEN <<key, value>> ELSE d[k]]
  ELSE Append(d, <<key, value>>)

\* variant: no deepcopy, current_payload is the template itself
build_payload_alias(template, serial_number) ==
  [current |-> dict_setitem(template, "serialNumber", serial_number),
   template |-> dict_setitem(template, "serialNumber", serial_number)]

\* current_payload = deepcopy(status_update_payload);
\* current_payload['serialNumber'] = serial_number
\* both objects as they are after the two statements
build_payload(template, serial_number) ==
  [current |-> dict_setitem(template, "serialNumber", serial_number),
   template |-> template]

\* ---------------------------------------------------- update_asset_status
\* the JSON-Patch document: one replace operation per item of update_data
patch_document(update_data) ==
  [k \in 1..Len(update_data) |->
     [op |-> "replace", path |-> <<"/", update_data[k][1]>>, value |-> update_data[k][2]]]

\* variant: the HTTPError handler returns True
update_asset_status_httptrue(resp) ==
  IF resp.kind \in {"ok", "http"} THEN [ret |-> TRUE, exc |-> "none"]
  ELSE [ret |-> FALSE, exc |-> "none"]

\* variant: the try block falls through to return False
update_asset_status_noreturn(resp) == [ret |-> FALSE, exc |-> "none"]

\* resp.kind: "ok", "http" (HTTPError), "net" (RequestException); in the
\* HTTPError handler response.json() parses (resp.json = "ok") or raises
\* JSONDecodeError (resp.json = "bad"), which the inner try catches
update_asset_status(resp) ==
  IF resp.kind = "ok" THEN [ret |-> TRUE, exc |-> "none"]
  ELSE IF resp.kind = "http"
       THEN (IF resp.json = "ok" THEN [ret |-> FALSE, exc |-> "none"]
             ELSE [ret |-> FALSE, exc |-> "none"])
  ELSE [ret |-> FALSE, exc |-> "none"]

\* -------------------------------------------------- post_asset_feed_entry
\* variant: only HTTPError is caught
post_asset_feed_entry_raises(resp) ==
  IF resp.kind = "ok" THEN [ret |-> TRUE, exc |-> "none"]
  ELSE IF resp.kind = "http" THEN [ret |-> FALSE, exc |-> "none"]
  ELSE [ret |-> FALSE, exc |-> "RequestException"]

\* resp.kind: "ok", "http" (HTTPError), "net" (RequestException); both caught
post_asset_feed_entry(resp) ==
  IF resp.kind = "ok" THEN [ret |-> TRUE, exc |-> "none"]
  ELSE IF resp.kind = "http" THEN [ret |-> FALSE, exc |-> "none"]
  ELSE [ret |-> FALSE, exc |-> "none"]

\* the argument of both time.sleep calls
SLEEP_SECS == 1

\* variant: i <= len(assets_to_process)
more_assets_inclusive(idx, assets) == idx <= Len(assets)

\* the condition of the sleep between assets: i < len(assets_to_process)
more_assets(idx, assets) == idx < Len(assets)

\* ------------------------------------------------------------------ inputs
Q(n) == [k \in 1..n |-> QUOTE]

\* bodies of the auth response: l quotes, a core, r quotes
TokenCores == {<<>>, <<"t">>, <<"t", QUOTE, "k">>, <<"t", "k">>}
TokenBodies == {Q(l) \o c \o Q(r) : l \in 0..MaxQuotes, r \in 0..MaxQuotes, c \in TokenCores}
TokenResponses ==
  {[kind |-> "ok", body |-> b] : b \in TokenBodies}
    \cup {[kind |-> "http", body |-> <<"e">>], [kind |-> "net", body |-> <<>>]}

\* the auth responses the workflow is run on
AuthSamples ==
  {[kind |-> "ok", body |-> <<QUOTE, "t", QUOTE>>], [kind |-> "ok", body |-> <<QUOTE, QUOTE>>],
   [kind |-> "http", body |-> <<"e">>], [kind |-> "net", body |-> <<>>]}

\* cells of a CSV row: None is the restval of a row shorter than the header,
\* which with the columns in the order "ID", "Serial Number", "Asset Tag" is
\* the Serial Number of a row that holds an ID only
CsvCells ==
  {None, Str(<<>>), Str(<<" ">>), Str(<<" ", "1", "\t">>), Str(<<"A">>),
   Str(<<" ">> \o <<"n","o","t"," ","F","o","u","n","d"," ","i","n"," ","I","T","S","M">> \o <<" ">>),
   Str(<<"N","O","T">>)}
CsvHeaders == SUBSET {"ID", "Serial Number"}

\* the sequences over S of length at most n
SeqsUpTo(S, n) == UNION {[1..k -> S] : k \in 0..n}

\* the readable files with header h and n rows, and the files that cannot be read
CsvRows(h) ==
  {r \in [h -> CsvCells] : \A c \in h : r[c] = None => (c = "Serial Number" /\ "ID" \in h)}
CsvFilesOk(h, n) == {[kind |-> "ok", rows |-> rs] : rs \in [1..n -> CsvRows(h)]}
CsvFilesBad == {[kind |-> "missing", rows |-> <<>>], [kind |-> "unreadable", rows |-> <<>>]}

\* the CSV files the workflow is run on
Row(id, sn) == [c \in {"ID", "Serial Number"} |-> IF c = "ID" THEN id ELSE sn]
SampleRows ==
  {Row(Str(<<" ", "1", "\t">>), Str(<<"A">>)),
   Row(Str(<<"A">>), Str(<<" ", "1", "\t">>)),
   Row(Str(<<"A">>), Str(<<"n","o","t"," ","f","o","u","n","d"," ","i","n"," ","i","t","s","m">>))}
CsvSamples ==
  {[kind |-> "missing", rows |-> <<>>]}
    \cup {[kind |-> "ok", rows |-> rs] : rs \in SeqsUpTo(SampleRows, MaxAssets)}

\* the JSON files the workflow is run on
StatusFiles ==
  {[kind |-> "missing", items |-> <<>>], [kind |-> "malformed", items |-> <<>>],
   [kind |-> "ok", items |-> <<>>],
   [kind |-> "ok", items |-> <<<<"status", <<"D">>>>>>],
   [kind |-> "ok", items |-> <<<<"serialNumber", <<"O">>>>, <<"status", <<"D">>>>>>]}
CommentFiles ==
  {[kind |-> "missing", items |-> <<>>], [kind |-> "malformed", items |-> <<>>],
   [kind |-> "ok", items |-> <<>>],
   [kind |-> "ok", items |-> <<<<"body", <<"c">>>>>>]}

UpdateResponses ==
  {[kind |-> "ok", json |-> "ok"], [kind |-> "http", json |-> "ok"],
   [kind |-> "http", json |-> "bad"], [kind |-> "net", json |-> "ok"]}
FeedResponses == {[kind |-> "ok"], [kind |-> "http"], [kind |-> "net"]}

\* ------------------------------------------------------------------- state
VARIABLES
  pc,                     \* position in main, or in the function under test
  env,                    \* APP_ID, AUTH_URL, API_BASE_URL, USERNAME, PASSWORD
  auth_response,          \* what the auth server answered
  token,
  csv_file,               \* content of CSV_FILENAME
  assets_to_process,
  status_file,            \* content of DISPOSED_STATUS_JSON
  comment_file,           \* content of COMMENT_JSON
  status_update_payload,
  comment_payload,
  i,                      \* loop index of enumerate(assets_to_process, 1)
  current_payload,
  update_successful,
  calls,                  \* requests.post / requests.patch / time.sleep calls so far
  raised                  \* exception that propagated out of main

vars == <<pc, env, auth_response, token, csv_file, assets_to_process, status_file,
          comment_file, status_update_payload, comment_payload, i, current_payload,
          update_successful, calls, raised>>

NoResponse == [kind |-> "unset", body |-> <<>>]
NoFile == [kind |-> "unset", rows |-> <<>>]
NoJson == [kind |-> "unset", items |-> <<>>]
EnvSet == [n \in EnvNames |-> Str(<<"x">>)]

Call(op, n, id, tok, body, result) ==
  [op |-> op, n |-> n, id |-> id, token |-> tok, body |-> body, secs |-> 0, result |-> result]
Sleep(n, secs) ==
  [op |-> "SLEEP", n |-> n, id |-> <<>>, token |-> <<>>, body |-> <<>>, secs |-> secs, result |-> "ok"]

Defaults ==
  /\ auth_response = NoResponse
  /\ token = None
  /\ csv_file = NoFile
  /\ assets_to_process = <<>>
  /\ status_file = NoJson
  /\ comment_file = NoJson
  /\ status_update_payload = None
  /\ comment_payload = None
  /\ i = 0
  /\ current_payload = <<>>
  /\ update_successful = FALSE
  /\ calls = <<>>
  /\ raised = "none"

\* the module has been loaded: the environment has been read
Init ==
  /\ pc = "start"
  /\ env \in [EnvNames -> EnvValues]
  /\ Defaults

\* ------------------------------------------------------------------- main
\* if not all([APP_ID, AUTH_URL, API_BASE_URL, USERNAME, PASSWORD]): return
CheckEnv ==
  /\ pc = "start"
  /\ pc' = IF all_env(env) THEN "auth" ELSE "aborted"
  /\ UNCHANGED <<env, auth_response, token, csv_file, assets_to_process, status_file,
                 comment_file, status_update_payload, comment_payload, i, current_payload,
                 update_successful, calls, raised>>

\* token = get_bearer_token(USERNAME, PASSWORD); if not token: return
Authenticate ==
  /\ pc = "auth"
  /\ \E resp \in AuthSamples :
       LET r == get_bearer_token(resp)
       IN /\ auth_response' = resp
          /\ calls' = Append(calls, Call("AUTH", 0, <<>>, <<>>, <<>>, resp.kind))
          /\ IF r.exc # "none"
             THEN /\ raised' = r.exc
                  /\ pc' = "crashed"
                  /\ token' = token
             ELSE /\ raised' = raised
                  /\ token' = r.ret
                  /\ pc' = IF Truthy(r.ret) THEN "read_csv" ELSE "aborted"
  /\ UNCHANGED <<env, csv_file, assets_to_process, status_file, comment_file,
                 status_update_payload, comment_payload, i, current_payload,
                 update_successful>>

\* assets_to_process = read_ids_from_csv(CSV_FILENAME); if not assets_to_process: return
ReadCsv ==
  /\ pc = "read_csv"
  /\ \E file \in CsvSamples :
       /\ csv_file' = file
       /\ assets_to_process' = read_ids_from_csv(file)
       /\ pc' = IF read_ids_from_csv(file) # <<>> THEN "read_json" ELSE "aborted"
  /\ UNCHANGED <<env, auth_response, token, status_file, comment_file,
                 status_update_payload, comment_payload, i, current_payload,
                 update_successful, calls, raised>>

\* both read_json_data calls; if not status_update_payload or not comment_payload: return
ReadJson ==
  /\ pc = "read_json"
  /\ \E sf \in StatusFiles, cf \in CommentFiles :
       /\ status_file' = sf
       /\ comment_file' = cf
       /\ status_update_payload' = read_json_data(sf)
       /\ comment_payload' = read_json_data(cf)
       /\ IF Truthy(read_json_data(sf)) /\ Truthy(read_json_data(cf))
          THEN pc' = "loop" /\ i' = 1
          ELSE pc' = "aborted" /\ i' = i
  /\ UNCHANGED <<env, auth_response, token, csv_file, assets_to_process, current_payload,
                 update_successful, calls, raised>>

\* head of the loop body: the per-asset payload
BuildPayload ==
  /\ pc = "loop"
  /\ LET b == build_payload(status_update_payload.v, assets_to_process[i].SerialNumber)
     IN /\ current_payload' = b.current
        /\ status_update_payload' = Dict(b.template)
  /\ pc' = "update"
  /\ UNCHANGED <<env, auth_response, token, csv_file, assets_to_process, status_file,
                 comment_file, comment_payload, i, update_successful, calls, raised>>

\* update_successful = update_asset_status(APP_ID, asset_id, token, current_payload)
UpdateAsset ==
  /\ pc = "update"
  /\ \E resp \in UpdateResponses :
       LET r == update_asset_status(resp)
       IN /\ calls' = Append(calls, Call("PATCH", i, assets_to_process[i].ID, token.v,
                                         patch_document(current_payload), resp.kind))
          /\ IF r.exc # "none"
             THEN raised' = r.exc /\ pc' = "crashed" /\ update_successful' = update_successful
             ELSE raised' = raised /\ pc' = "after_update" /\ update_successful' = r.ret
  /\ UNCHANGED <<env, auth_response, token, csv_file, assets_to_process, status_file,
                 comment_file, status_update_payload, comment_payload, i, current_payload>>

\* if update_successful: time.sleep(1)
CommentSleep ==
  /\ pc = "after_update"
  /\ update_successful
  /\ calls' = Append(calls, Sleep(i, SLEEP_SECS))
  /\ pc' = "comment"
  /\ UNCHANGED <<env, auth_response, token, csv_file, assets_to_process, status_file,
                 comment_file, status_update_payload, comment_payload, i, current_payload,
                 update_successful, raised>>

\* the if body is not entered
SkipComment ==
  /\ pc = "after_update"
  /\ ~update_successful
  /\ pc' = "pace"
  /\ UNCHANGED <<env, auth_response, token, csv_file, assets_to_process, status_file,
                 comment_file, status_update_payload, comment_payload, i, current_payload,
                 update_successful, calls, raised>>

\* post_asset_feed_entry(APP_ID, asset_id, token, comment_payload)
PostFeed ==
  /\ pc = "comment"
  /\ \E resp \in FeedResponses :
       LET r == post_asset_feed_entry(resp)
       IN /\ calls' = Append(calls, Call("POST", i, assets_to_process[i].ID, token.v,
                                         comment_payload.v, resp.kind))
          /\ IF r.exc # "none"
             THEN raised' = r.exc /\ pc' = "crashed"
             ELSE raised' = raised /\ pc' = "pace"
  /\ UNCHANGED <<env, auth_response, token, csv_file, assets_to_process, status_file,
                 comment_file, status_update_payload, comment_payload, i, current_payload,
                 update_successful>>

\* if i < len(assets_to_process): time.sleep(1); then the next iteration, or
\* the end of the loop and of main
Pace ==
  /\ pc = "pace"
  /\ IF more_assets(i, assets_to_process)
     THEN calls' = Append(calls, Sleep(i, SLEEP_SECS))
     ELSE calls' = calls
  /\ IF i < Len(assets_to_process)
     THEN pc' = "loop" /\ i' = i + 1
     ELSE pc' = "done" /\ i' = i
  /\ UNCHANGED <<env, auth_response, token, csv_file, assets_to_process, status_file,
                 comment_file, status_update_payload, comment_payload, current_payload,
                 update_successful, raised>>

Next ==
  \/ CheckEnv
  \/ Authenticate
  \/ ReadCsv
  \/ ReadJson
  \/ BuildPayload
  \/ UpdateAsset
  \/ CommentSleep
  \/ SkipComment
  \/ PostFeed
  \/ Pace

Spec == Init /\ [][Next]_vars

\* main runs to its end: no step of a single-threaded script is postponed forever
FairSpec == Spec /\ WF_vars(Next)

\* ------------------------------------- get_bearer_token on its own inputs
InitToken ==
  /\ pc = "token_input"
  /\ env = EnvSet
  /\ auth_response \in TokenResponses
  /\ token = None
  /\ csv_file = NoFile
  /\ assets_to_process = <<>>
  /\ status_file = NoJson
  /\ comment_file = NoJson
  /\ status_update_payload = None
  /\ comment_payload = None
  /\ i = 0
  /\ current_payload = <<>>
  /\ update_successful = FALSE
  /\ calls = <<>>
  /\ raised = "none"

TokenCall ==
  /\ pc = "token_input"
  /\ LET r == get_bearer_token(auth_response)
     IN /\ token' = r.ret
        /\ raised' = r.exc
        /\ calls' = Append(calls, Call("AUTH", 0, <<>>, <<>>, <<>>, auth_response.kind))
  /\ pc' = "token_done"
  /\ UNCHANGED <<env, auth_response, csv_file, assets_to_process, status_file, comment_file,
                 status_update_payload, comment_payload, i, current_payload,
                 update_successful>>

NextToken == TokenCall

SpecToken == InitToken /\ [][NextToken]_vars

\* ------------------------------------ read_ids_from_csv on its own inputs
InitCsv ==
  /\ pc = "csv_input"
  /\ env = EnvSet
  /\ auth_response = NoResponse
  /\ token = None
  /\ \/ csv_file \in CsvFilesBad
     \/ \E h \in CsvHeaders, n \in 0..MaxRows : csv_file \in CsvFilesOk(h, n)
  /\ assets_to_process = <<>>
  /\ status_file = NoJson
  /\ comment_file = NoJson
  /\ status_update_payload = None
  /\ comment_payload = None
  /\ i = 0
  /\ current_payload = <<>>
  /\ update_successful = FALSE
  /\ calls = <<>>
  /\ raised = "none"

CsvCall ==
  /\ pc = "csv_input"
  /\ assets_to_process' = read_ids_from_csv(csv_file)
  /\ pc' = "csv_done"
  /\ UNCHANGED <<env, auth_response, token, csv_file, status_file, comment_file,
                 status_update_payload, comment_payload, i, current_payload,
                 update_successful, calls, raised>>

NextCsv == CsvCall

SpecCsv == InitCsv /\ [][NextCsv]_vars

\* ------------------------------------------------------- reading the calls
ApiOps == {"PATCH", "POST"}
IsApi(c) == c.op \in ApiOps
IsPatch(c) == c.op = "PATCH"
IsPost(c) == c.op = "POST"
IsSleep(c) == c.op = "SLEEP"
ApiCalls == SelectSeq(calls, IsApi)
Patches == SelectSeq(calls, IsPatch)
Posts == SelectSeq(calls, IsPost)
Sleeps == SelectSeq(calls, IsSleep)
NumAssets == Len(assets_to_process)
PatchAt(p, k) == calls[p].op = "PATCH" /\ calls[p].n = k
PostAt(p, k) == calls[p].op = "POST" /\ calls[p].n = k
SleepAt(p, k) == calls[p].op = "SLEEP" /\ calls[p].n = k
InLoop == pc \in {"loop", "update", "after_update", "comment", "pace", "done"}

\* --------------------------------------------------------------------- C1
\* C1: a feed POST for an asset is issued only after the PATCH for that asset
\* returned success; after a failed PATCH (HTTP or network error) there is
\* never a feed POST for that asset, and the next call to the API is the
\* PATCH of the next asset, which every asset has got when main ends.
C1_UpdateBeforeComment ==
  /\ \A p \in 1..Len(calls) :
       IsPost(calls[p]) =>
         \E q \in 1..(p - 1) : PatchAt(q, calls[p].n) /\ calls[q].result = "ok"
  /\ \A p \in 1..Len(calls) :
       (IsPatch(calls[p]) /\ calls[p].result # "ok") =>
         /\ \A q \in 1..Len(calls) : ~PostAt(q, calls[p].n)
         /\ \A q \in (p + 1)..Len(calls) :
              (IsApi(calls[q]) /\ \A m \in (p + 1)..(q - 1) : ~IsApi(calls[m]))
                => PatchAt(q, calls[p].n + 1)
  /\ pc = "done" => \A k \in 1..NumAssets : \E p \in 1..Len(calls) : PatchAt(p, k)

C1_Witness ==
  /\ pc = "done"
  /\ NumAssets = 2
  /\ \E p, q, r \in 1..Len(calls) :
       /\ PatchAt(p, 1) /\ calls[p].result = "http"
       /\ PatchAt(q, 2) /\ calls[q].result = "ok"
       /\ PostAt(r, 2)

\* --------------------------------------------------------------------- C2
\* C2: the PATCH calls are one per asset, in file order, each for the ID of
\* its asset; the PATCH of asset k+1 comes after asset k has finished (its
\* PATCH failed or its POST returned); at the end there are exactly N PATCH
\* calls, and when all of them succeeded the API calls are
\* PATCH(a1), POST(a1), PATCH(a2), POST(a2), ...: N of each.
C2_Sequential ==
  /\ \A j \in 1..Len(Patches) :
       /\ j <= NumAssets
       /\ Patches[j].n = j
       /\ Patches[j].id = assets_to_process[j].ID
  /\ \A p \in 1..Len(calls) :
       (IsPatch(calls[p]) /\ calls[p].n > 1) =>
         \E q \in 1..(p - 1) :
           \/ PatchAt(q, calls[p].n - 1) /\ calls[q].result # "ok"
           \/ PostAt(q, calls[p].n - 1)
  /\ pc = "done" => Len(Patches) = NumAssets
  /\ (pc = "done" /\ \A j \in 1..Len(Patches) : Patches[j].result = "ok") =>
       /\ Len(Patches) = NumAssets
       /\ Len(Posts) = NumAssets
       /\ Len(ApiCalls) = 2 * NumAssets
       /\ \A j \in 1..NumAssets :
            /\ ApiCalls[2 * j - 1].op = "PATCH" /\ ApiCalls[2 * j - 1].n = j
            /\ ApiCalls[2 * j].op = "POST" /\ ApiCalls[2 * j].n = j
            /\ ApiCalls[2 * j].id = assets_to_process[j].ID

C2_Witness ==
  /\ pc = "done"
  /\ NumAssets = 2
  /\ assets_to_process[1].ID # assets_to_process[2].ID
  /\ Len(Patches) = 2
  /\ Len(Posts) = 2
  /\ \A j \in 1..2 : Patches[j].result = "ok"

\* --------------------------------------------------------------------- C3
\* C3: a PATCH or feed POST is issued only when every setup step succeeded:
\* the auth answer was a success, the CSV file was there and gave at least one
\* record, and both JSON files were there and well-formed; a run that was
\* aborted has issued none.
C3_SetupSucceeded ==
  /\ \A n \in EnvNames : env[n].t = "str" /\ env[n].v # <<>>
  /\ auth_response.kind = "ok"
  /\ token.t = "str" /\ token.v # <<>>
  /\ csv_file.kind = "ok"
  /\ \E k \in 1..Len(csv_file.rows) :
       /\ csv_file.rows[k]["ID"].t = "str"
       /\ csv_file.rows[k]["Serial Number"].t = "str"
  /\ assets_to_process # <<>>
  /\ status_file.kind = "ok"
  /\ comment_file.kind = "ok"

C3_NoCallsWithoutSetup ==
  /\ ApiCalls # <<>> => C3_SetupSucceeded
  /\ pc \in {"aborted", "crashed"} => ApiCalls = <<>>

C3_Witness ==
  /\ pc = "aborted"
  /\ auth_response.kind = "ok"
  /\ assets_to_process # <<>>
  /\ status_file.kind = "ok"
  /\ comment_file.kind = "malformed"
  /\ ApiCalls = <<>>

\* --------------------------------------------------------------------- C4
\* C4: get_bearer_token issues one POST and returns to its caller without
\* raising: the token string on success, None on an HTTP error and on a
\* network error.
C4_NeverRaises ==
  pc = "token_done" =>
    /\ raised = "none"
    /\ auth_response.kind = "ok" => token.t = "str"
    /\ auth_response.kind \in {"http", "net"} => token = None
    /\ Len(calls) = 1 /\ calls[1].op = "AUTH"

\* --------------------------------------------------------------------- C5
\* C5: when one of the five environment values is None or empty, main
\* aborts at once: no call (auth POST, PATCH, feed POST, sleep) is ever made.
C5_EnvIncomplete == \E n \in EnvNames : env[n].t = "None" \/ env[n].v = <<>>

C5_FailFast ==
  C5_EnvIncomplete => calls = <<>> /\ pc \in {"start", "aborted"}

C5_Witness ==
  /\ pc = "aborted"
  /\ env["PASSWORD"] = Str(<<>>)
  /\ \A n \in EnvNames \ {"PASSWORD"} : env[n] = Str(<<"x">>)
  /\ calls = <<>>

\* --------------------------------------------------------------------- C6
\* C6: the status template stays what was loaded from its file however many
\* assets have been processed, and the document of each PATCH has one
\* replace operation per key of the template plus serialNumber, whose value
\* is the serial number of that PATCH's own asset; the other values are the
\* template's.
C6_TemplateKeys == {status_file.items[k][1] : k \in 1..Len(status_file.items)}

C6_TemplateUnchanged ==
  InLoop =>
    /\ status_update_payload = [t |-> "dict", v |-> status_file.items]
    /\ \A p \in 1..Len(calls) :
         IsPatch(calls[p]) =>
           LET doc == calls[p].body
           IN /\ {doc[k].path[2] : k \in 1..Len(doc)} = C6_TemplateKeys \cup {"serialNumber"}
              /\ Len(doc) = Cardinality(C6_TemplateKeys \cup {"serialNumber"})
              /\ \A k \in 1..Len(doc) :
                   /\ doc[k].op = "replace"
                   /\ doc[k].path[1] = "/"
                   /\ doc[k].path[2] = "serialNumber" =>
                        doc[k].value = assets_to_process[calls[p].n].SerialNumber
                   /\ doc[k].path[2] # "serialNumber" =>
                        \E m \in 1..Len(status_file.items) :
                          status_file.items[m] = <<doc[k].path[2], doc[k].value>>

C6_Witness ==
  /\ pc = "done"
  /\ NumAssets = 2
  /\ assets_to_process[1].SerialNumber # assets_to_process[2].SerialNumber
  /\ "serialNumber" \in C6_TemplateKeys
  /\ Len(Patches) = 2
  /\ status_update_payload.v = status_file.items

\* --------------------------------------------------------------------- C7
\* C7: every sleep lasts 1 unit; a successful PATCH is followed by one sleep
\* and then the POST of the same asset, a failed PATCH is not; after an asset
\* has finished, whatever the outcome, one sleep precedes the PATCH of the
\* next asset, and nothing follows the last asset: at the end the number of
\* sleeps is the number of successful PATCH calls plus N - 1.
C7_Last(p) == p = Len(calls)

C7_Delays ==
  /\ \A p \in 1..Len(calls) : IsSleep(calls[p]) => calls[p].secs = 1
  /\ \A p \in 1..Len(calls) :
       LET k == calls[p].n
       IN /\ (IsPatch(calls[p]) /\ calls[p].result = "ok") =>
               /\ ~C7_Last(p) => SleepAt(p + 1, k)
               /\ p + 2 <= Len(calls) => PostAt(p + 2, k)
          /\ IsPost(calls[p]) =>
               /\ p > 2 /\ SleepAt(p - 1, k) /\ PatchAt(p - 2, k)
          /\ ((IsPatch(calls[p]) /\ calls[p].result # "ok") \/ IsPost(calls[p])) =>
               /\ ~C7_Last(p) => (k < NumAssets /\ SleepAt(p + 1, k))
               /\ p + 2 <= Len(calls) => PatchAt(p + 2, k + 1)
               /\ (pc = "done" /\ k < NumAssets) => ~C7_Last(p)
          /\ IsPatch(calls[p]) =>
               IF k = 1 THEN p > 1 /\ calls[p - 1].op = "AUTH"
               ELSE /\ p > 2
                    /\ SleepAt(p - 1, k - 1)
                    /\ \/ PostAt(p - 2, k - 1)
                       \/ PatchAt(p - 2, k - 1) /\ calls[p - 2].result # "ok"
  /\ pc = "done" =>
       /\ ~IsSleep(calls[Len(calls)])
       /\ Len(Sleeps) = Cardinality({j \in 1..Len(Patches) : Patches[j].result = "ok"})
                          + NumAssets - 1

C7_Witness ==
  /\ pc = "done"
  /\ NumAssets = 2
  /\ \E p \in 1..Len(calls) :
       /\ PatchAt(p, 1) /\ calls[p].result = "net"
       /\ SleepAt(p + 1, 1)
       /\ PatchAt(p + 2, 2) /\ calls[p + 2].result = "ok"
       /\ SleepAt(p + 3, 2)
       /\ PostAt(p + 4, 2) /\ calls[p + 4].result = "http"
       /\ Len(calls) = p + 4

\* --------------------------------------------------------------------- C8
\* C8: for a readable file read_ids_from_csv returns exactly the rows whose
\* trimmed ID and trimmed Serial Number are both non-empty and neither is
\* "not found in itsm" in any letter case, as {ID, SerialNumber} records of
\* the trimmed values, in file order.
C8_Cell(row, col) == IF col \in DOMAIN row /\ row[col].t = "str" THEN row[col].v ELSE <<>>
C8_Trimmed(row, col) == strip(C8_Cell(row, col), Whitespace)
C8_Keeps(row) ==
  /\ C8_Trimmed(row, "ID") # <<>>
  /\ C8_Trimmed(row, "Serial Number") # <<>>
  /\ upper(C8_Trimmed(row, "ID")) # upper(NOT_FOUND)
  /\ upper(C8_Trimmed(row, "Serial Number")) # upper(NOT_FOUND)
C8_Expected(rows) ==
  LET kept == SelectSeq(rows, C8_Keeps)
  IN [k \in 1..Len(kept) |->
        [ID |-> C8_Trimmed(kept[k], "ID"), SerialNumber |-> C8_Trimmed(kept[k], "Serial Number")]]

C8_ExactlyValidRows ==
  (pc = "csv_done" /\ csv_file.kind = "ok") =>
    assets_to_process = C8_Expected(csv_file.rows)

\* --------------------------------------------------------------------- C9
\* C9 as stated: on success the token is the body without one leading and
\* one trailing quote (one pair), so k >= 1 pairs leave k - 1 pairs, and a
\* body without a surrounding pair is the token as it is.
C9_Lead(b) == Len(b) - Len(LStrip(b, {QUOTE}))
C9_Trail(b) == Len(b) - Len(RStrip(b, {QUOTE}))
\* the number of quote pairs around the body, -1 when its quotes do not pair up
C9_Pairs(b) ==
  IF C9_Lead(b) = Len(b) THEN (IF Len(b) % 2 = 0 THEN Len(b) \div 2 ELSE -1)
  ELSE IF C9_Lead(b) = C9_Trail(b) THEN C9_Lead(b) ELSE -1

C9_StripsOnePair ==
  (pc = "token_done" /\ auth_response.kind = "ok") =>
    /\ C9_Pairs(auth_response.body) >= 1 =>
         token.v = SubSeq(auth_response.body, 2, Len(auth_response.body) - 1)
    /\ C9_Pairs(auth_response.body) = 0 => token.v = auth_response.body

\* C9 amended: on success the token is the body without all of its leading
\* and all of its trailing quotes: the body is some quotes, the token, some
\* quotes, and the token neither starts nor ends with a quote (quotes inside
\* it are kept).
C9_StripsAllQuotes ==
  (pc = "token_done" /\ auth_response.kind = "ok") =>
    /\ token.t = "str"
    /\ \E l, r \in 0..Len(auth_response.body) :
         /\ l + Len(token.v) + r = Len(auth_response.body)
         /\ \A k \in 1..Len(auth_response.body) :
              auth_response.body[k] =
                IF k <= l \/ k > l + Len(token.v) THEN QUOTE ELSE token.v[k - l]
    /\ token.v # <<>> => token.v[1] # QUOTE /\ token.v[Len(token.v)] # QUOTE

C9_Witness ==
  /\ pc = "token_done"
  /\ auth_response = [kind |-> "ok", body |-> <<QUOTE, QUOTE, "t", QUOTE, "k", QUOTE, QUOTE>>]
  /\ token = Str(<<"t", QUOTE, "k">>)

\* -------------------------------------------------------------------- C10
\* C10: once the setup has succeeded no exception leaves the loop, and main
\* reaches its end with every asset Skipped (its PATCH failed), CommentFailed
\* or Commented (its POST was made), whatever the outcomes of the calls.
C10_State(k) ==
  IF \E p \in 1..Len(calls) : PostAt(p, k) /\ calls[p].result = "ok" THEN "Commented"
  ELSE IF \E p \in 1..Len(calls) : PostAt(p, k) THEN "CommentFailed"
  ELSE IF \E p \in 1..Len(calls) : PatchAt(p, k) /\ calls[p].result # "ok" THEN "Skipped"
  ELSE "Pending"

C10_Complete ==
  /\ pc = "done"
  /\ raised = "none"
  /\ \A k \in 1..NumAssets : C10_State(k) \in {"Skipped", "CommentFailed", "Commented"}

====
